---- MODULE Spec2Model ----
(***************************************************************************)
(* Model of internal/repository/rpc/sfc_delegation.go: the ChainBridge     *)
(* accessors for delegation data of the SFC contract.                      *)
(*                                                                         *)
(* Every accessor is a linear function of its arguments and of the         *)
(* outcome of the calls it makes to the node (contract binding, ABI        *)
(* packer, raw CallContract).  Init draws one invocation: the accessor,    *)
(* its arguments and the outcome of each call it can make.  One action per *)
(* accessor runs the whole handler and records what the caller observes.   *)
(*                                                                         *)
(* Representation of Go values:                                            *)
(*   pointer / error     <<>> is nil, <<x>> points to x                    *)
(*   big.Int             [neg, abs], abs the magnitude as big-endian bytes *)
(*                       without leading zeros (<<>> is 0)                 *)
(*   uint64              big-endian bytes without leading zeros, at most   *)
(*                       Uint64Len of them                                 *)
(*   []byte              a sequence of 0..255                              *)
(***************************************************************************)
EXTENDS Integers, Sequences, FiniteSets

VARIABLES pc, op, addr, valID, amount, pack, resp, lock, ret

vars == <<pc, op, addr, valID, amount, pack, resp, lock, ret>>

(* ------------------------------ bounds -------------------------------- *)

\* number of distinct transport / packing errors
NumErrors == 2
\* number of distinct staker addresses
NumAddrs == 2
\* amounts of every byte length 0..MaxValLen are drawn (and of WordLen)
MaxValLen == 9
\* response lengths 0..MaxExtra and WordLen-MaxExtra..WordLen+MaxExtra
MaxExtra == 1

(* ------------------------- program constants -------------------------- *)

\* the response of unlockStake is one ABI word
WordLen == 32
\* big.Int.Uint64 keeps the low 64 bits
Uint64Len == 8

(* ------------------------------ values -------------------------------- *)

Nil == <<>>

Ptr(x) == <<x>>

Deref(p) == p[1]

Fill(n, f) == [i \in 1..n |-> f]

\* the magnitude of n bytes with leading byte b and the others f
Val(n, b, f) == <<b>> \o Fill(n - 1, f)

RECURSIVE Strip(_)
Strip(s) == IF s = <<>> THEN <<>>
            ELSE IF Head(s) = 0 THEN Strip(Tail(s)) ELSE s

Low(s, n) == IF Len(s) <= n THEN s ELSE SubSeq(s, Len(s) - n + 1, Len(s))

Reverse(s) == [i \in 1..Len(s) |-> s[Len(s) + 1 - i]]

BigInt(abs) == [neg |-> FALSE, abs |-> abs]

\* magnitudes an unsigned 256-bit contract value is drawn from
AbsVals == {<<>>} \cup
           {Val(n, b, f) : n \in (1..MaxValLen) \cup {WordLen},
                           b \in {1, 255}, f \in {0, 255}}

\* magnitudes of the fields of a lockup: 0, 1, 2^64-1, 2^64, 2^72-1, 2^256-1
LockAbs == {<<>>, Val(1, 1, 0), Val(Uint64Len, 255, 255),
            Val(Uint64Len + 1, 1, 0), Val(Uint64Len + 1, 1, 255),
            Val(WordLen, 255, 255)}

Addrs == 1..NumAddrs

ValIDs == {BigInt(<<>>), BigInt(<<1>>), BigInt(Val(Uint64Len + 1, 1, 0))}

Amounts == {BigInt(<<>>), BigInt(<<255>>)}

Errors == {<<i>> : i \in 1..NumErrors}

ErrLockMissing == <<0>>

(* ----------------------- outcomes of the calls ------------------------ *)

Ok(v) == [kind |-> "ok", val |-> v, err |-> Nil]

Failed(e, zero) == [kind |-> "err", val |-> zero, err |-> e]

Panicked(zero) == [kind |-> "panic", val |-> zero, err |-> Nil]

\* a contract read of one uint256: the value, or nil and an error, or a panic
IntOutcomes == {Ok(Ptr(BigInt(a))) : a \in AbsVals} \cup
               {Failed(e, Nil) : e \in Errors} \cup {Panicked(Nil)}

\* AllowedToWithdrawStake: a bool, or false and an error, or a panic
BoolOutcomes == {Ok(b) : b \in BOOLEAN} \cup
                {Failed(e, FALSE) : e \in Errors} \cup {Panicked(FALSE)}

DataLens == (0..MaxExtra) \cup ((WordLen - MaxExtra)..(WordLen + MaxExtra))

\* the bytes CallContract can answer: a magnitude left-padded with zeros
Datas == UNION {{Fill(n - Len(a), 0) \o a : a \in {x \in AbsVals : Len(x) <= n}} :
                n \in DataLens}

\* CallContract: bytes, or nil and an error, or a panic
DataOutcomes == {Ok(d) : d \in Datas} \cup
                {Failed(e, <<>>) : e \in Errors} \cup {Panicked(<<>>)}

\* SfcAbi().Pack and contracts.NewSfcTokenizer: done, or an error
PrepOutcomes == {Ok(Nil)} \cup {Failed(e, Nil) : e \in Errors}

\* GetLockupInfo: success, an error, or a panic
LockOutcomes == {Ok(Nil)} \cup {Failed(e, Nil) : e \in Errors} \cup {Panicked(Nil)}

LockPtrs == {Nil} \cup {Ptr(BigInt(a)) : a \in LockAbs}

\* the struct GetLockupInfo returns; each *big.Int may be nil
LockInfos == [LockedStake : LockPtrs, FromEpoch : LockPtrs,
              EndTime : LockPtrs, Duration : LockPtrs]

NoLock == [LockedStake |-> Nil, FromEpoch |-> Nil, EndTime |-> Nil, Duration |-> Nil]

(* ---------------------- what the caller observes ---------------------- *)

\* the accessor returned (val, err) after `calls` remote queries
Ret(val, err, calls) == [val |-> val, err |-> err, calls |-> calls, fault |-> FALSE]

\* the accessor panicked after `calls` remote queries; err is the value the
\* error variable held at that point
Fault(err, calls) == [val |-> Nil, err |-> err, calls |-> calls, fault |-> TRUE]

NoRet == Ret(Nil, Nil, 0)

(* --------------------------- conversions ------------------------------ *)

\* HexBig going through a uint64, as hexutil.Big(*new(big.Int).SetUint64(x.Uint64()))
HexBigViaUint64(x) == [neg |-> x.neg, abs |-> Strip(Low(x.abs, Uint64Len))]

\* hexutil.Big(x): the same struct under another type name
HexBig(x) == [neg |-> x.neg, abs |-> x.abs]

\* the zero hexutil.Big{}
HexBigZero == [neg |-> FALSE, abs |-> <<>>]

\* SetBytes reading buf least significant byte first
SetBytesLittleEndian(buf) == [neg |-> FALSE, abs |-> Strip(Reverse(buf))]

\* new(big.Int).SetBytes(buf): buf as a big-endian magnitude, sign cleared
SetBytes(buf) == [neg |-> FALSE, abs |-> Strip(buf)]

\* Uint64 keeping only the low 32 bits, as uint64(uint32(x.Uint64()))
Uint64Low32(x) == Strip(Low(x.abs, 4))

\* x.Uint64(): the low 64 bits of the magnitude
Uint64(x) == Strip(Low(x.abs, Uint64Len))

\* the zero types.DelegationLock{}
ZeroLock == [LockedAmount |-> HexBigZero, LockedFromEpoch |-> <<>>,
             LockedUntil |-> <<>>, Duration |-> <<>>]

(* ----------------------------- accessors ------------------------------ *)

\* Forward that queries a second time when the first query fails
ForwardRetry(r) == IF r.kind = "panic" THEN Fault(Nil, 1)
                   ELSE IF r.kind = "err" THEN Ret(r.val, r.err, 2)
                   ELSE Ret(r.val, r.err, 1)

\* return binding(opts, *addr, valID): one query, its results forwarded
Forward(r) == IF r.kind = "panic" THEN Fault(Nil, 1) ELSE Ret(r.val, r.err, 1)

AmountStaked(r) == Forward(r)

AmountStakeLocked(r) == Forward(r)

AmountStakeUnlocked(r) == Forward(r)

\* StakeUnlockPenalty returning the packer's err after a failed CallContract
StakeUnlockPenaltyStaleErr(p, r) ==
    IF p.kind = "err" THEN Ret(Nil, p.err, 0)
    ELSE IF r.kind = "panic" THEN Fault(Nil, 1)
    ELSE IF r.kind = "err" THEN Ret(Nil, p.err, 1)
    ELSE IF Len(r.val) # WordLen THEN Ret(Nil, r.err, 1)
    ELSE Ret(Ptr(SetBytes(r.val)), Nil, 1)

StakeUnlockPenalty(p, r) ==
    IF p.kind = "err" THEN Ret(Nil, p.err, 0)
    ELSE IF r.kind = "panic" THEN Fault(Nil, 1)
    ELSE IF r.kind = "err" THEN Ret(Nil, r.err, 1)
    \* `return nil, err` with err still holding CallContract's nil
    ELSE IF Len(r.val) # WordLen THEN Ret(Nil, r.err, 1)
    ELSE Ret(Ptr(SetBytes(r.val)), Nil, 1)

\* PendingRewards propagating the error of the query
PendingRewardsPropagates(a, v, r) ==
    LET pr == [Address |-> a, Staker |-> HexBig(v), Amount |-> HexBigZero]
    IN IF r.kind = "panic" THEN Fault(Nil, 1)
       ELSE IF r.kind = "err" THEN Ret(Nil, r.err, 1)
       ELSE Ret(Ptr([pr EXCEPT !.Amount = HexBig(Deref(r.val))]), Nil, 1)

PendingRewards(a, v, r) ==
    LET pr == [Address |-> a, Staker |-> HexBig(v), Amount |-> HexBigZero]
    IN IF r.kind = "panic" THEN Fault(Nil, 1)
       ELSE IF r.kind = "err" THEN Ret(Ptr(pr), Nil, 1)
       ELSE Ret(Ptr([pr EXCEPT !.Amount = HexBig(Deref(r.val))]), Nil, 1)

\* the lock record DelegationLock assembles; *lock.LockedStake and
\* lock.X.Uint64() panic on a nil field, err holding GetLockupInfo's nil
LockRecord(r, l) ==
    IF \E f \in DOMAIN l : l[f] = Nil THEN Fault(r.err, 1)
    ELSE Ret(Ptr([LockedAmount    |-> HexBig(Deref(l.LockedStake)),
                  LockedFromEpoch |-> Uint64(Deref(l.FromEpoch)),
                  LockedUntil     |-> Uint64(Deref(l.EndTime)),
                  Duration        |-> Uint64(Deref(l.Duration))]), Nil, 1)

\* DelegationLockBody reporting a missing lock only when both timers are nil
DelegationLockBodyBothAbsent(r, l) ==
    IF r.kind = "panic" THEN Fault(Nil, 1)
    ELSE IF r.kind = "err" THEN Ret(Nil, r.err, 1)
    ELSE IF l.FromEpoch = Nil /\ l.EndTime = Nil THEN Ret(Nil, ErrLockMissing, 1)
    ELSE LockRecord(r, l)

\* DelegationLockBody reporting a missing lock when any of the four fields is nil
DelegationLockBodyChecksAll(r, l) ==
    IF r.kind = "panic" THEN Fault(Nil, 1)
    ELSE IF r.kind = "err" THEN Ret(Nil, r.err, 1)
    ELSE IF \E f \in DOMAIN l : l[f] = Nil THEN Ret(Nil, ErrLockMissing, 1)
    ELSE LockRecord(r, l)

\* the body of DelegationLock, before the deferred function runs
DelegationLockBody(r, l) ==
    IF r.kind = "panic" THEN Fault(Nil, 1)
    ELSE IF r.kind = "err" THEN Ret(Nil, r.err, 1)
    ELSE IF l.FromEpoch = Nil \/ l.EndTime = Nil THEN Ret(Nil, ErrLockMissing, 1)
    ELSE LockRecord(r, l)

\* a deferred function that does not recover
RecoverNone(x) == x

\* the deferred function: on a panic, dll = &types.DelegationLock{}; the
\* named result err keeps its value
Recover(x) == IF x.fault THEN Ret(Ptr(ZeroLock), x.err, x.calls) ELSE x

DelegationLock(r, l) == Recover(DelegationLockBody(r, l))

DelegationOutstandingSCoin(p, r) ==
    IF p.kind = "err" THEN Ret(Nil, p.err, 0) ELSE Forward(r)

DelegationTokenizerUnlocked(p, r) ==
    IF p.kind = "err" THEN Ret(FALSE, p.err, 0)
    ELSE IF r.kind = "panic" THEN Fault(Nil, 1)
    ELSE IF r.kind = "err" THEN Ret(FALSE, r.err, 1)
    ELSE Ret(r.val, Nil, 1)

(* --------------------------- state machine ---------------------------- *)

\* an invocation of the accessor o with the outcomes of its calls
Invoke(o, amounts, preps, resps, locks) ==
    /\ pc = "call"
    /\ op = o
    /\ addr \in Addrs
    /\ valID \in ValIDs
    /\ amount \in amounts
    /\ pack \in preps
    /\ resp \in resps
    /\ lock \in locks
    /\ ret = NoRet

Init ==
    \/ Invoke("AmountStaked", {Nil}, {Ok(Nil)}, IntOutcomes, {NoLock})
    \/ Invoke("AmountStakeLocked", {Nil}, {Ok(Nil)}, IntOutcomes, {NoLock})
    \/ Invoke("AmountStakeUnlocked", {Nil}, {Ok(Nil)}, IntOutcomes, {NoLock})
    \/ Invoke("StakeUnlockPenalty", Amounts, {Ok(Nil)}, DataOutcomes, {NoLock})
    \/ Invoke("StakeUnlockPenalty", Amounts, PrepOutcomes \ {Ok(Nil)}, {Ok(<<>>)}, {NoLock})
    \/ Invoke("PendingRewards", {Nil}, {Ok(Nil)}, IntOutcomes, {NoLock})
    \/ Invoke("DelegationLock", {Nil}, {Ok(Nil)}, {Ok(Nil)}, LockInfos)
    \/ Invoke("DelegationLock", {Nil}, {Ok(Nil)}, LockOutcomes \ {Ok(Nil)}, {NoLock})
    \/ Invoke("DelegationOutstandingSCoin", {Nil}, {Ok(Nil)}, IntOutcomes, {NoLock})
    \/ Invoke("DelegationOutstandingSCoin", {Nil}, PrepOutcomes \ {Ok(Nil)}, {Ok(Nil)}, {NoLock})
    \/ Invoke("DelegationTokenizerUnlocked", {Nil}, {Ok(Nil)}, BoolOutcomes, {NoLock})
    \/ Invoke("DelegationTokenizerUnlocked", {Nil}, PrepOutcomes \ {Ok(Nil)}, {Ok(FALSE)}, {NoLock})

\* what an invocation is given: it is read, never written
inputs == <<op, addr, valID, amount, pack, resp, lock>>

\* each action runs one accessor to its end; the caller observes ret
CallAmountStaked ==
    /\ pc = "call"
    /\ op = "AmountStaked"
    /\ ret' = AmountStaked(resp)
    /\ pc' = "done"
    /\ UNCHANGED inputs

CallAmountStakeLocked ==
    /\ pc = "call"
    /\ op = "AmountStakeLocked"
    /\ ret' = AmountStakeLocked(resp)
    /\ pc' = "done"
    /\ UNCHANGED inputs

CallAmountStakeUnlocked ==
    /\ pc = "call"
    /\ op = "AmountStakeUnlocked"
    /\ ret' = AmountStakeUnlocked(resp)
    /\ pc' = "done"
    /\ UNCHANGED inputs

CallStakeUnlockPenalty ==
    /\ pc = "call"
    /\ op = "StakeUnlockPenalty"
    /\ ret' = StakeUnlockPenalty(pack, resp)
    /\ pc' = "done"
    /\ UNCHANGED inputs

CallPendingRewards ==
    /\ pc = "call"
    /\ op = "PendingRewards"
    /\ ret' = PendingRewards(addr, valID, resp)
    /\ pc' = "done"
    /\ UNCHANGED inputs

CallDelegationLock ==
    /\ pc = "call"
    /\ op = "DelegationLock"
    /\ ret' = DelegationLock(resp, lock)
    /\ pc' = "done"
    /\ UNCHANGED inputs

CallDelegationOutstandingSCoin ==
    /\ pc = "call"
    /\ op = "DelegationOutstandingSCoin"
    /\ ret' = DelegationOutstandingSCoin(pack, resp)
    /\ pc' = "done"
    /\ UNCHANGED inputs

CallDelegationTokenizerUnlocked ==
    /\ pc = "call"
    /\ op = "DelegationTokenizerUnlocked"
    /\ ret' = DelegationTokenizerUnlocked(pack, resp)
    /\ pc' = "done"
    /\ UNCHANGED inputs

Next ==
    \/ CallAmountStaked
    \/ CallAmountStakeLocked
    \/ CallAmountStakeUnlocked
    \/ CallStakeUnlockPenalty
    \/ CallPendingRewards
    \/ CallDelegationLock
    \/ CallDelegationOutstandingSCoin
    \/ CallDelegationTokenizerUnlocked

Spec == Init /\ [][Next]_vars

Done(o) == pc = "done" /\ op = o

(* ------------------------------ claims -------------------------------- *)

\* the i-th least significant byte of a big-endian byte string, 0 beyond it
ByteAt(s, i) == IF i <= Len(s) THEN s[Len(s) + 1 - i] ELSE 0

\* u has no leading zero byte
Normal(u) == u = <<>> \/ u[1] # 0

\* u is the number the low n bytes of s spell
LowBytesOf(u, s, n) ==
    /\ Normal(u)
    /\ Len(u) <= n
    /\ \A i \in 1..Len(u) : u[i] \in 0..255
    /\ \A i \in 1..n : ByteAt(u, i) = ByteAt(s, i)

\* the number a byte string of at most 3 bytes spells
ToNat(s) == ByteAt(s, 1) + 256 * ByteAt(s, 2) + 65536 * ByteAt(s, 3)

\* the response of StakeUnlockPenalty's CallContract has a length other than 32
BadLength == pack.kind = "ok" /\ resp.kind = "ok" /\ Len(resp.val) # WordLen

\* C1: StakeUnlockPenalty returns a non-nil error and no value whenever
\* packing and CallContract succeed and the response is not exactly 32 bytes.
C1_RejectsWrongLength ==
    (Done("StakeUnlockPenalty") /\ BadLength)
        => (~ret.fault /\ ret.err # Nil /\ ret.val = Nil)

\* C2: PendingRewards returns a nil error and a non-nil record whether the
\* query succeeds or fails, and the record's Amount is 0 when it fails.
C2_PendingRewardsNeverErrors ==
    (Done("PendingRewards") /\ resp.kind \in {"ok", "err"})
        => /\ ~ret.fault
           /\ ret.err = Nil
           /\ ret.val # Nil
           /\ resp.kind = "err" => /\ Deref(ret.val).Amount.abs = <<>>
                                   /\ Deref(ret.val).Amount.neg = FALSE

C2_Witness ==
    /\ Done("PendingRewards")
    /\ resp.kind = "err"
    /\ ret.err = Nil
    /\ ret.val # Nil

\* the query succeeded and a timing field of the lockup is nil
TimerAbsent == resp.kind = "ok" /\ (lock.FromEpoch = Nil \/ lock.EndTime = Nil)

\* C3: DelegationLock returns a nil record and the 'delegation lock missing'
\* error when the query succeeds with FromEpoch or EndTime nil, whatever
\* LockedStake and Duration are.
C3_MissingTimerIsError ==
    (Done("DelegationLock") /\ TimerAbsent)
        => (~ret.fault /\ ret.val = Nil /\ ret.err = ErrLockMissing)

C3_Witness ==
    /\ Done("DelegationLock")
    /\ resp.kind = "ok"
    /\ lock.FromEpoch # Nil
    /\ lock.EndTime = Nil
    /\ lock.LockedStake = Nil
    /\ lock.Duration # Nil
    /\ ret.err = ErrLockMissing

\* C4: when GetLockupInfo panics, DelegationLock returns normally with the
\* zero-valued record and a nil error.
C4_PanicRecovered ==
    (Done("DelegationLock") /\ resp.kind = "panic")
        => (~ret.fault /\ ret.val = Ptr(ZeroLock) /\ ret.err = Nil)

C4_Witness ==
    /\ Done("DelegationLock")
    /\ resp.kind = "panic"
    /\ ~ret.fault
    /\ ret.val # Nil

Forwarders == {"AmountStaked", "AmountStakeLocked", "AmountStakeUnlocked",
               "DelegationOutstandingSCoin"}

\* C5: when the remote call succeeds with value v, AmountStaked,
\* AmountStakeLocked, AmountStakeUnlocked and DelegationOutstandingSCoin
\* return v and a nil error, and PendingRewards returns a record whose
\* Amount is v.
C5_ValueUnchanged ==
    (pc = "done" /\ pack.kind = "ok" /\ resp.kind = "ok")
        => /\ op \in Forwarders
                => (~ret.fault /\ ret.err = Nil /\ ret.val = resp.val)
           /\ op = "PendingRewards"
                => /\ ~ret.fault
                   /\ ret.val # Nil
                   /\ Deref(ret.val).Amount.neg = Deref(resp.val).neg
                   /\ Deref(ret.val).Amount.abs = Deref(resp.val).abs

C5_Witness ==
    /\ Done("PendingRewards")
    /\ resp.kind = "ok"
    /\ Len(Deref(resp.val).abs) = WordLen
    /\ Deref(ret.val).Amount.abs = Deref(resp.val).abs

Propagators == Forwarders \cup {"StakeUnlockPenalty", "DelegationLock"}

\* C6: when the packing or binding step, or the remote call, of AmountStaked,
\* AmountStakeLocked, AmountStakeUnlocked, StakeUnlockPenalty, DelegationLock,
\* DelegationOutstandingSCoin or DelegationTokenizerUnlocked fails with error
\* e, the accessor returns e itself and no value (nil, or false).
C6_ErrorPropagated ==
    (pc = "done" /\ op \in Propagators \cup {"DelegationTokenizerUnlocked"}
                 /\ (pack.kind = "err" \/ resp.kind = "err"))
        => /\ ~ret.fault
           /\ ret.err = (IF pack.kind = "err" THEN pack.err ELSE resp.err)
           /\ ret.err # Nil
           /\ op \in Propagators => ret.val = Nil
           /\ op = "DelegationTokenizerUnlocked" => ret.val = FALSE

C6_Witness ==
    /\ Done("StakeUnlockPenalty")
    /\ pack.kind = "ok"
    /\ resp.kind = "err"
    /\ ret.err = resp.err
    /\ ret.val = Nil

\* C7: every invocation of an accessor issues at most one remote query, a
\* failed query included, and none at all when packing the call data or
\* instantiating the tokenizer binding fails.
C7_AtMostOneQuery ==
    pc = "done" => /\ ret.calls <= 1
                   /\ pack.kind = "err" => ret.calls = 0

C7_Witness ==
    /\ Done("DelegationOutstandingSCoin")
    /\ pack.kind = "ok"
    /\ resp.kind = "err"
    /\ ret.calls = 1

\* C8: when packing succeeds and CallContract answers exactly 32 bytes,
\* StakeUnlockPenalty returns a nil error and the bytes read as a big-endian
\* unsigned integer: never negative, below 2^256, and 0 exactly when all 32
\* bytes are 0.
C8_PenaltyDecoded ==
    (Done("StakeUnlockPenalty") /\ pack.kind = "ok" /\ resp.kind = "ok"
                                /\ Len(resp.val) = WordLen)
        => /\ ~ret.fault
           /\ ret.err = Nil
           /\ ret.val # Nil
           /\ Deref(ret.val).neg = FALSE
           /\ LowBytesOf(Deref(ret.val).abs, resp.val, WordLen)
           /\ Deref(ret.val).abs = <<>> <=> \A i \in 1..WordLen : resp.val[i] = 0
           /\ (\A i \in 1..(WordLen - 3) : resp.val[i] = 0)
                => ToNat(Deref(ret.val).abs) =
                       65536 * resp.val[WordLen - 2] + 256 * resp.val[WordLen - 1]
                           + resp.val[WordLen]

C8_Witness ==
    /\ Done("StakeUnlockPenalty")
    /\ resp.kind = "ok"
    /\ Len(resp.val) = WordLen
    /\ resp.val[1] = 0
    /\ resp.val[WordLen - 1] = 1
    /\ resp.val[WordLen] = 255
    /\ Deref(ret.val).abs = <<1, 255>>

\* the query succeeded and the four fields of the lockup are present
LockPresent == resp.kind = "ok" /\ \A f \in DOMAIN lock : lock[f] # Nil

\* C9 as stated: with the four fields present DelegationLock returns a nil
\* error and a record whose LockedAmount, LockedFromEpoch, LockedUntil and
\* Duration equal LockedStake, FromEpoch, EndTime and Duration for every
\* value of up to 256 bits.
C9_FieldsExact ==
    (Done("DelegationLock") /\ LockPresent)
        => /\ ~ret.fault
           /\ ret.err = Nil
           /\ ret.val # Nil
           /\ Deref(ret.val).LockedAmount.abs = Deref(lock.LockedStake).abs
           /\ Deref(ret.val).LockedFromEpoch = Deref(lock.FromEpoch).abs
           /\ Deref(ret.val).LockedUntil = Deref(lock.EndTime).abs
           /\ Deref(ret.val).Duration = Deref(lock.Duration).abs

\* u is x reduced to its low 64 bits, so x itself when x < 2^64
Low64Of(u, x) ==
    /\ LowBytesOf(u, x.abs, Uint64Len)
    /\ Len(x.abs) <= Uint64Len => u = x.abs

\* C9 amended: with the four fields present DelegationLock returns a nil
\* error and a record whose LockedAmount equals LockedStake for every value
\* of up to 256 bits, and whose LockedFromEpoch, LockedUntil and Duration are
\* the low 64 bits of FromEpoch, EndTime and Duration: the returned value
\* itself when it is below 2^64.
C9_FieldsLow64 ==
    (Done("DelegationLock") /\ LockPresent)
        => /\ ~ret.fault
           /\ ret.err = Nil
           /\ ret.val # Nil
           /\ Deref(ret.val).LockedAmount.neg = Deref(lock.LockedStake).neg
           /\ Deref(ret.val).LockedAmount.abs = Deref(lock.LockedStake).abs
           /\ Low64Of(Deref(ret.val).LockedFromEpoch, Deref(lock.FromEpoch))
           /\ Low64Of(Deref(ret.val).LockedUntil, Deref(lock.EndTime))
           /\ Low64Of(Deref(ret.val).Duration, Deref(lock.Duration))

C9_Witness ==
    /\ Done("DelegationLock")
    /\ LockPresent
    /\ Len(Deref(lock.LockedStake).abs) = WordLen
    /\ Deref(lock.FromEpoch).abs = Val(Uint64Len, 255, 255)
    /\ Deref(lock.EndTime).abs = Val(Uint64Len + 1, 1, 255)
    /\ Deref(ret.val).LockedAmount.abs = Deref(lock.LockedStake).abs
    /\ Deref(ret.val).LockedFromEpoch = Val(Uint64Len, 255, 255)
    /\ Deref(ret.val).LockedUntil = Val(Uint64Len, 255, 255)

\* the query succeeded with both timers present and LockedStake or Duration nil
AmountAbsent ==
    /\ resp.kind = "ok"
    /\ lock.FromEpoch # Nil
    /\ lock.EndTime # Nil
    /\ (lock.LockedStake = Nil \/ lock.Duration = Nil)

\* C10: when the query succeeds with FromEpoch and EndTime present and
\* LockedStake or Duration nil, DelegationLock returns the zero-valued record
\* and a nil error; and in every outcome DelegationLock returns exactly one
\* of a non-nil record and a non-nil error.
C10_NilFieldRecovered ==
    Done("DelegationLock")
        => /\ ~ret.fault
           /\ (ret.val # Nil) # (ret.err # Nil)
           /\ AmountAbsent => (ret.val = Ptr(ZeroLock) /\ ret.err = Nil)

C10_Witness ==
    /\ Done("DelegationLock")
    /\ AmountAbsent
    /\ lock.Duration = Nil
    /\ lock.LockedStake # Nil
    /\ ret.val = Ptr(ZeroLock)
    /\ ret.err = Nil

====
